---- MODULE Spec2Model ----
(***************************************************************************)
(* Model of packages/ensjs/src/getProfile.ts: the profile resolution of    *)
(* ensjs.  One caller issues MaxCalls successive getProfile calls with the *)
(* same input string and the same options object.  The external            *)
(* collaborators (index query, reverse name lookup, universal resolver)    *)
(* answer a repeated question the way they answered it the first time.     *)
(*                                                                         *)
(* Strings that the code inspects character by character (the input, hex   *)
(* strings) are sequences of one-character strings; a hex string is kept   *)
(* without its "0x" prefix.  Raw bytes are sequences of numbers.  ABI      *)
(* encoding of the calls is an external codec and is not modelled: a call  *)
(* descriptor is its key and its type.                                     *)
(***************************************************************************)
EXTENDS Integers, Sequences, FiniteSets, TLC

\* ------------------------------------------------------------- bounds
MaxCalls == 2
MaxTexts == 1
MaxCoins == 2

SeqUpTo(S, n) == UNION {[1..k -> S] : k \in 0..n}

\* ------------------------------------------------- JavaScript values
\* A field of an options object: undefined, null, a boolean, an array of
\* keys or a (hex) string.
Undef == [tag |-> "undef", b |-> FALSE, v |-> <<>>]
Null == [tag |-> "null", b |-> FALSE, v |-> <<>>]
Bool(x) == [tag |-> "bool", b |-> x, v |-> <<>>]
List(s) == [tag |-> "list", b |-> FALSE, v |-> s]
Str(s) == [tag |-> "str", b |-> FALSE, v |-> s]

\* JavaScript truthiness; every array is truthy, and so is every hex string
\* (it is at least "0x").
Truthy(x) ==
  CASE x.tag = "bool" -> x.b
    [] x.tag = "list" -> TRUE
    [] x.tag = "str" -> TRUE
    [] OTHER -> FALSE

IsTrue(x) == x.tag = "bool" /\ x.b

\* ------------------------------------------------------------ domains
\* Keys a caller asks for.  The index may also list "1", a coin type with no
\* registered format.
TextKeys == {"email", "60"}
CoinKeys == {"60", "61"}
\* The raw bytes of a response item.  A text record is empty or "j"; an
\* addr or contenthash record is no byte, a zero byte, a non-zero byte or a
\* zero byte followed by a non-zero one.
TextPayload == {<<>>, <<106>>}
BytesPayload == {<<>>, <<0>>, <<106>>, <<0, 106>>}
TheName == <<"a", ".", "e">>
\* A name, and an address (its hex digits after "0x").
Inputs == {TheName, <<"6", "A">>}

NoOptions == [defined |-> FALSE, contentHash |-> Undef, texts |-> Undef,
              coinTypes |-> Undef]
Obj(ch, t, c) == [defined |-> TRUE, contentHash |-> ch, texts |-> t,
                  coinTypes |-> c]
OptionValues ==
  {NoOptions} \cup
  {Obj(ch, t, c) :
     ch \in {Undef, Bool(TRUE)},
     t \in {Undef, Bool(TRUE)} \cup {List(s) : s \in SeqUpTo(TextKeys, MaxTexts)},
     c \in {Undef, Bool(TRUE)} \cup {List(s) : s \in SeqUpTo(CoinKeys, MaxCoins)}}
DefaultOptions == Obj(Bool(TRUE), Bool(TRUE), Bool(TRUE))

\* ------------------------------------------------------ string helpers
Includes(s, ch) == \E i \in 1..Len(s) : s[i] = ch

LowerChar(ch) ==
  CASE ch = "A" -> "a"
    [] ch = "B" -> "b"
    [] OTHER -> ch
ToLowerCase(s) == [i \in 1..Len(s) |-> LowerChar(s[i])]

UpperChar(ch) ==
  CASE ch = "a" -> "A"
    [] ch = "b" -> "B"
    [] OTHER -> ch

HexDigits(byte) ==
  CASE byte = 0 -> <<"0", "0">>
    [] byte = 106 -> <<"6", "a">>
    [] OTHER -> <<"?", "?">>
\* defaultAbiCoder.decode(['bytes'], item)[0]: the lower-case hex string of
\* the bytes.
DecodeBytes(p) ==
  [i \in 1..(2 * Len(p)) |-> HexDigits(p[(i + 1) \div 2])[2 - (i % 2)]]

CharOf(byte) ==
  CASE byte = 0 -> "NUL"
    [] byte = 106 -> "j"
    [] OTHER -> "?"
\* defaultAbiCoder.decode(['string'], item)[0]: the bytes read as characters.
DecodeString(p) == [i \in 1..Len(p) |-> CharOf(p[i])]

RECURSIVE HexStripZeros(_)
HexStripZeros(h) ==
  IF h # <<>> /\ Head(h) = "0" THEN HexStripZeros(Tail(h)) ELSE h

\* ------------------------------------------------ address codec (external)
\* formatsByCoinType of @ensdomains/address-encoder, cut down to two
\* registered coin types; "1" stands for a coin type with no format.
FormatNames == [c \in {"60", "61"} |-> IF c = "60" THEN "ETH" ELSE "ETC_LEGACY"]
HasFormat(key) == key \in DOMAIN FormatNames
\* The checksummed-hex encoder: the hex digits of the bytes with some of the
\* letters in upper case.  Which letters is decided by a hash in the
\* library; here it is the letters at even positions.
FormatEncoder(bytesHex) ==
  [i \in 1..Len(bytesHex) |->
     IF i % 2 = 0 THEN UpperChar(bytesHex[i]) ELSE bytesHex[i]]

\* ------------------------------------------------------ call building
Call(key, type) == [key |-> key, type |-> type]

\* addCalls: one descriptor per item of recordArray, pushed in order.
AddCalls(calls, recordArray, recordType) ==
  calls \o [i \in 1..Len(recordArray) |-> Call(recordArray[i], recordType)]

\* calls.filter((x) => x.key === '60')
Filter60(calls) == SelectSeq(calls, LAMBDA x : x.key = "60")

\* The call list of getDataForName.  The guard of the last push negates an
\* array, and an array is truthy whatever it holds.
BuildCalls(options) ==
  LET c1 == IF Truthy(options.texts)
            THEN AddCalls(<<>>, options.texts.v, "text") ELSE <<>>
      c2 == IF Truthy(options.coinTypes)
            THEN AddCalls(c1, options.coinTypes.v, "addr") ELSE c1
      c3 == IF IsTrue(options.contentHash)
            THEN Append(c2, Call("contentHash", "contenthash")) ELSE c2
  IN  IF ~Truthy(List(Filter60(c3))) THEN Append(c3, Call("60", "addr")) ELSE c3

\* The call list of getDataForAddress: the same steps on its own array.
BuildReverseCalls(options) ==
  LET c1 == IF Truthy(options.texts)
            THEN AddCalls(<<>>, options.texts.v, "text") ELSE <<>>
      c2 == IF Truthy(options.coinTypes)
            THEN AddCalls(c1, options.coinTypes.v, "addr") ELSE c1
      c3 == IF IsTrue(options.contentHash)
            THEN Append(c2, Call("contentHash", "contenthash")) ELSE c2
  IN  IF ~Truthy(List(Filter60(c3))) THEN Append(c3, Call("60", "addr")) ELSE c3

\* calls.findIndex((x) => x.key === '60'): the 0-based index of the first
\* descriptor with that key, of whatever type, or -1.
FindIndexAny(calls) == IF Len(calls) > 0 THEN 0 ELSE -1
FindIndex60(calls) ==
  IF \E i \in 1..Len(calls) : calls[i].key = "60"
  THEN (CHOOSE i \in 1..Len(calls) :
          /\ calls[i].key = "60"
          /\ \A j \in 1..(i - 1) : calls[j].key # "60") - 1
  ELSE -1

\* data[i] for a 0-based i: undefined outside the array.
Defined(data, i) == i >= 0 /\ i < Len(data)
At(data, i) == data[i + 1]

\* ------------------------------------------------------- formatRecords
NullItem == [key |-> "", type |-> "null", coin |-> "", value |-> <<>>]
Item(key, type, coin, value) ==
  [key |-> key, type |-> type, coin |-> coin, value |-> value]

\* ethers.utils.hexStripZeros(decodedFromAbi) === '0x'
IsUnsetHex(h) == HexStripZeros(h) = <<>>

FormatItemKeepEmptyText(item, call) ==
  LET decodedFromAbi == DecodeBytes(item)
  IN  IF call.type \in {"addr", "contenthash"} /\ IsUnsetHex(decodedFromAbi)
      THEN NullItem
      ELSE CASE call.type = "text" ->
                  Item(call.key, "text", "", DecodeString(item))
             [] call.type = "addr" ->
                  IF HasFormat(call.key)
                  THEN Item(call.key, "addr", FormatNames[call.key],
                            FormatEncoder(decodedFromAbi))
                  ELSE NullItem
             [] OTHER -> Item(call.key, call.type, "", decodedFromAbi)
\* The body of the map callback: one response item and its descriptor to a
\* record, or null.
FormatItem(item, call) ==
  LET decodedFromAbi == DecodeBytes(item)
  IN  IF call.type \in {"addr", "contenthash"} /\ IsUnsetHex(decodedFromAbi)
      THEN NullItem
      ELSE CASE call.type = "text" ->
                  IF DecodeString(item) = <<>>
                  THEN NullItem
                  ELSE Item(call.key, "text", "", DecodeString(item))
             [] call.type = "addr" ->
                  IF HasFormat(call.key)
                  THEN Item(call.key, "addr", FormatNames[call.key],
                            FormatEncoder(decodedFromAbi))
                  ELSE NullItem
             [] OTHER -> Item(call.key, call.type, "", decodedFromAbi)

NullRecords ==
  [isNull |-> TRUE, contentHash |-> Undef, hasTexts |-> FALSE, texts |-> <<>>,
   hasCoinTypes |-> FALSE, coinTypes |-> <<>>]

\* returnedRecords: the mapped items with the nulls filtered out.
ReturnedRecords(data, calls) ==
  SelectSeq([i \in 1..Len(data) |-> FormatItem(data[i], calls[i])],
            LAMBDA x : x # NullItem)

ContentHashFieldFromRecords(returned, options) ==
  IF Truthy(options.contentHash)
  THEN LET found == SelectSeq(returned, LAMBDA x : x.type = "contenthash")
       IN  IF found # <<>> THEN Str(found[1].value) ELSE Null
  ELSE Undef
\* The contentHash field of the response: a string given in the options is
\* passed through, a true is answered from the decoded records.
ContentHashField(returned, options) ==
  IF options.contentHash.tag = "str"
  THEN IF IsUnsetHex(options.contentHash.v) THEN Null ELSE options.contentHash
  ELSE IF Truthy(options.contentHash)
       THEN LET found == SelectSeq(returned, LAMBDA x : x.type = "contenthash")
            IN  IF found # <<>> THEN Str(found[1].value) ELSE Null
       ELSE Undef

AssembleDropEmptyBuckets(returned, options) ==
  LET t == SelectSeq(returned, LAMBDA x : x.type = "text")
      c == SelectSeq(returned, LAMBDA x : x.type = "addr")
  IN  [isNull |-> FALSE,
       contentHash |-> ContentHashField(returned, options),
       hasTexts |-> Truthy(options.texts) /\ t # <<>>,
       texts |-> IF Truthy(options.texts) THEN t ELSE <<>>,
       hasCoinTypes |-> Truthy(options.coinTypes) /\ c # <<>>,
       coinTypes |-> IF Truthy(options.coinTypes) THEN c ELSE <<>>]
\* returnedResponse: the buckets of the categories the options ask for.
Assemble(returned, options) ==
  [isNull |-> FALSE,
   contentHash |-> ContentHashField(returned, options),
   hasTexts |-> Truthy(options.texts),
   texts |-> IF Truthy(options.texts)
             THEN SelectSeq(returned, LAMBDA x : x.type = "text") ELSE <<>>,
   hasCoinTypes |-> Truthy(options.coinTypes),
   coinTypes |-> IF Truthy(options.coinTypes)
                 THEN SelectSeq(returned, LAMBDA x : x.type = "addr") ELSE <<>>]

\* formatRecords.  calls[i] is undefined for a response item past the end of
\* the call list, and reading its key throws a TypeError.
FormatRecords(data, calls, options) ==
  IF Len(data) > Len(calls)
  THEN [ok |-> FALSE, records |-> NullRecords]
  ELSE [ok |-> TRUE, records |-> Assemble(ReturnedRecords(data, calls), options)]

\* ------------------------------------------------------------- results
NoResult ==
  [status |-> "none", error |-> "", hasName |-> FALSE, name |-> <<>>,
   hasAddress |-> FALSE, address |-> <<>>, hasMatch |-> FALSE,
   match |-> FALSE, records |-> NullRecords]
Failure(e) == [NoResult EXCEPT !.status = "error", !.error = e]

\* The comparison of getDataForAddress: the decoded value (lower-case hex)
\* against the queried address in lower case.
AddressMatchesExactCase(decoded, address) == decoded = address
AddressMatches(decoded, address) == decoded = ToLowerCase(address)

\* What getDataForName returns for the decoded response recordData.
\* Decoding an undefined slot throws; the address is decoded before
\* formatRecords runs.
ForwardResult(recordData, calls, options) ==
  LET idx == FindIndex60(calls)
      fr == FormatRecords(recordData, calls, options)
  IN  IF ~Defined(recordData, idx) THEN Failure("decode")
      ELSE IF ~fr.ok THEN Failure("TypeError")
      ELSE [NoResult EXCEPT !.status = "ok", !.hasAddress = TRUE,
                            !.address = DecodeBytes(At(recordData, idx)),
                            !.records = fr.records]
ForwardFormats(recordData, calls) == Defined(recordData, FindIndex60(calls))

\* What getDataForAddress returns for the answer (name, data) of reverse().
ReverseResult(name, data, calls, options, address) ==
  LET idx == FindIndex60(calls)
      fr == FormatRecords(data, calls, options)
  IN  IF ~Defined(data, idx) THEN Failure("decode")
      ELSE IF ~AddressMatches(DecodeBytes(At(data, idx)), address)
      THEN [NoResult EXCEPT !.status = "ok", !.hasName = TRUE, !.name = name,
                            !.hasMatch = TRUE, !.match = FALSE]
      ELSE IF ~fr.ok THEN Failure("TypeError")
      ELSE [NoResult EXCEPT !.status = "ok", !.hasName = TRUE, !.name = name,
                            !.hasMatch = TRUE, !.match = TRUE,
                            !.records = fr.records]
ReverseFormats(data, calls, address) ==
  /\ Defined(data, FindIndex60(calls))
  /\ AddressMatches(DecodeBytes(At(data, FindIndex60(calls))), address)

\* --------------------------------------------------------- index query
GraphAnswer(t, c, h) ==
  [asked |-> TRUE, ok |-> TRUE, texts |-> t, coinTypes |-> c, contentHash |-> h]
\* No domain of that name in the index: the destructuring of the response
\* throws.
GraphNoDomain ==
  [asked |-> TRUE, ok |-> FALSE, texts |-> Null, coinTypes |-> Null,
   contentHash |-> Null]
GraphUnasked ==
  [asked |-> FALSE, ok |-> FALSE, texts |-> Null, coinTypes |-> Null,
   contentHash |-> Null]
GraphAnswers ==
  {GraphNoDomain} \cup
  {GraphAnswer(t, ch[1], ch[2]) :
     t \in {Null, List(<<"email">>)},
     ch \in {<<List(<<"60">>), Null>>,
             <<List(<<"60", "1">>), Str(<<"6", "a">>)>>,
             <<List(<<"61">>), Str(<<"0", "0">>)>>}}

GraphFetchMergeTextsOnly(wantedRecords, resolverResponse) ==
  [wantedRecords EXCEPT
     !.texts = IF IsTrue(@) THEN resolverResponse.texts ELSE @]
\* The forEach of graphFetch: every field that is the boolean true is
\* overwritten, in the object it was given, by the index response's field.
GraphFetchMerge(wantedRecords, resolverResponse) ==
  [wantedRecords EXCEPT
     !.contentHash = IF IsTrue(@) THEN resolverResponse.contentHash ELSE @,
     !.texts = IF IsTrue(@) THEN resolverResponse.texts ELSE @,
     !.coinTypes = IF IsTrue(@) THEN resolverResponse.coinTypes ELSE @]

\* The branch condition of getProfileFromName and getProfileFromAddress.
UseIndex(opts) ==
  \/ ~opts.defined
  \/ opts.texts = Bool(TRUE)
  \/ opts.coinTypes = Bool(TRUE)

\* options || { contentHash: true, texts: true, coinTypes: true }
OrDefault(opts) == IF opts.defined THEN opts ELSE DefaultOptions

\* `if (!name.match) return ...` of getProfileFromAddress.
NameIsBoundAlways(nameAnswer) == TRUE
NameIsBound(nameAnswer) == nameAnswer.match

\* ------------------------------------------------- the resolver's store
Slots ==
  ({"text"} \X TextKeys) \cup ({"addr"} \X (CoinKeys \cup {"1"}))
    \cup {<<"contenthash", "contentHash">>}
Unasked == <<-1>>
SlotOf(call) == <<call.type, call.key>>
Faults == {"none", "short", "long"}

\* The response list for calls: one item per call, unless the resolver
\* answers with an item too few or one too many.
Respond(store, calls, f) ==
  LET full == [i \in 1..Len(calls) |-> store[SlotOf(calls[i])]]
  IN  CASE f = "short" /\ Len(full) > 0 -> SubSeq(full, 1, Len(full) - 1)
        [] f = "long" -> Append(full, <<>>)
        [] OTHER -> full

\* -------------------------------------------------------------- state
VARIABLES
  nameOrAddress,  \* the input string of every call
  options,        \* the caller's options object, shared by the calls
  callNo,         \* the number of the current (or last) call
  pc,             \* where the current call is suspended
  caller,         \* "name" or "address": the path getProfile chose
  wanted,         \* the options object handed down the current call
  name,           \* the name being resolved
  calls,          \* the call list of the current call
  data,           \* the response list of the current call
  log,            \* per call: the external calls issued, in order
  path,           \* per call: "index" or "direct"
  argOptions,     \* per call: the value of options when the call began
  result,         \* per call: what the call returned or threw
  ranFormatter,   \* per call: whether formatRecords was invoked
  graphResp,      \* the index's answer for the name, once asked
  nameResp,       \* the reverse name lookup's answer, once asked
  chain,          \* the resolver's record per slot, once asked
  fault           \* how the resolver's response lists are off, once asked

vars ==
  <<nameOrAddress, options, callNo, pc, caller, wanted, name, calls, data,
    log, path, argOptions, result, ranFormatter, graphResp, nameResp, chain,
    fault>>

CallIds == 1..MaxCalls

Init ==
  /\ nameOrAddress \in Inputs
  /\ options \in OptionValues
  /\ callNo = 0
  /\ pc = "idle"
  /\ caller = "none"
  /\ wanted = NoOptions
  /\ name = <<>>
  /\ calls = <<>>
  /\ data = <<>>
  /\ log = [c \in CallIds |-> <<>>]
  /\ path = [c \in CallIds |-> "none"]
  /\ argOptions = [c \in CallIds |-> NoOptions]
  /\ result = [c \in CallIds |-> NoResult]
  /\ ranFormatter = [c \in CallIds |-> FALSE]
  /\ graphResp = GraphUnasked
  /\ nameResp = [asked |-> FALSE, match |-> FALSE, name |-> <<>>]
  /\ chain = [s \in Slots |-> Unasked]
  /\ fault = "unasked"

World == <<graphResp, nameResp, chain, fault>>

\* The default export with the synchronous start of getProfileFromName or
\* getProfileFromAddress, up to the first await.
GetProfile ==
  /\ pc = "idle"
  /\ callNo < MaxCalls
  /\ callNo' = callNo + 1
  /\ argOptions' = [argOptions EXCEPT ![callNo + 1] = options]
  /\ path' = [path EXCEPT
                ![callNo + 1] = IF UseIndex(options) THEN "index" ELSE "direct"]
  /\ calls' = <<>>
  /\ data' = <<>>
  /\ IF Includes(nameOrAddress, ".")
     THEN /\ caller' = "name"
          /\ name' = nameOrAddress
          /\ wanted' = IF UseIndex(options) THEN OrDefault(options) ELSE options
          /\ pc' = IF UseIndex(options) THEN "graphFetch" ELSE "getDataForName"
     ELSE /\ caller' = "address"
          /\ name' = <<>>
          /\ wanted' = options
          /\ pc' = IF UseIndex(options) THEN "getName" ELSE "getDataForAddress"
  /\ UNCHANGED <<nameOrAddress, options, log, result, ranFormatter, World>>

\* getProfileFromAddress, from the answer of ENS.getName to the next await.
\* The early return hands back the lookup's answer as name; the result keeps
\* the name it holds.
GetName ==
  /\ pc = "getName"
  /\ \E r \in [asked : {TRUE}, match : BOOLEAN, name : {TheName}] :
       /\ nameResp.asked => r = nameResp
       /\ nameResp' = r
       /\ log' = [log EXCEPT ![callNo] = Append(@, "getName")]
       /\ IF ~NameIsBound(r)
          THEN /\ result' = [result EXCEPT ![callNo] =
                   [NoResult EXCEPT !.status = "ok", !.hasName = TRUE,
                                    !.name = r.name, !.hasMatch = TRUE,
                                    !.match = FALSE]]
               /\ pc' = "idle"
               /\ UNCHANGED <<name, wanted>>
          ELSE /\ name' = r.name
               /\ wanted' = OrDefault(options)
               /\ pc' = "graphFetch"
               /\ UNCHANGED result
  /\ UNCHANGED <<nameOrAddress, options, callNo, caller, calls, data, path,
                 argOptions, ranFormatter, graphResp, chain, fault>>

\* graphFetch, from the answer of client.request to its return.  wanted is
\* the caller's own object whenever the caller passed one.
GraphFetch ==
  /\ pc = "graphFetch"
  /\ \E g \in GraphAnswers :
       /\ graphResp.asked => g = graphResp
       /\ graphResp' = g
       /\ log' = [log EXCEPT ![callNo] = Append(@, "index")]
       /\ IF ~g.ok
          THEN /\ result' = [result EXCEPT ![callNo] = Failure("TypeError")]
               /\ pc' = "idle"
               /\ UNCHANGED <<wanted, options>>
          ELSE /\ wanted' = GraphFetchMerge(wanted, g)
               /\ options' = IF options.defined
                             THEN GraphFetchMerge(wanted, g) ELSE options
               /\ pc' = "getDataForName"
               /\ UNCHANGED result
  /\ UNCHANGED <<nameOrAddress, callNo, caller, name, calls, data, path,
                 argOptions, ranFormatter, nameResp, chain, fault>>

\* getDataForName up to the await of universalResolver.resolve.
ResolveCall ==
  /\ pc = "getDataForName"
  /\ calls' = BuildCalls(wanted)
  /\ log' = [log EXCEPT ![callNo] = Append(@, "resolve")]
  /\ pc' = "resolving"
  /\ UNCHANGED <<nameOrAddress, options, callNo, caller, wanted, name, data,
                 path, argOptions, result, ranFormatter, World>>

\* The resolver answers the calls: slots never asked before get a record,
\* the others keep theirs.
Answer(response) ==
  \E f \in Faults :
    \E fresh \in [{s \in {SlotOf(calls[i]) : i \in 1..Len(calls)} :
                      chain[s] = Unasked} -> BytesPayload] :
      /\ \A s \in DOMAIN fresh : s[1] = "text" => fresh[s] \in TextPayload
      /\ fault # "unasked" => f = fault
      /\ fault' = f
      /\ chain' = [s \in Slots |->
                     IF s \in DOMAIN fresh THEN fresh[s] ELSE chain[s]]
      /\ response = Respond(chain', calls, f)

\* getDataForName from the answer of resolve to its return, and the return
\* of the getProfileFrom... function that awaited it.
ResolveReturn ==
  /\ pc = "resolving"
  /\ Answer(data')
  /\ LET r == ForwardResult(data', calls, wanted)
     IN  result' = [result EXCEPT ![callNo] =
           IF caller = "address" /\ r.status = "ok"
           THEN [r EXCEPT !.hasAddress = FALSE, !.address = <<>>,
                          !.hasName = TRUE, !.name = name,
                          !.hasMatch = TRUE, !.match = TRUE]
           ELSE r]
  /\ ranFormatter' = [ranFormatter EXCEPT
                        ![callNo] = ForwardFormats(data', calls)]
  /\ pc' = "idle"
  /\ UNCHANGED <<nameOrAddress, options, callNo, caller, wanted, name, calls,
                 log, path, argOptions, graphResp, nameResp>>

\* getDataForAddress up to the await of universalResolver.reverse.
ReverseCall ==
  /\ pc = "getDataForAddress"
  /\ calls' = BuildReverseCalls(wanted)
  /\ log' = [log EXCEPT ![callNo] = Append(@, "reverse")]
  /\ pc' = "reversing"
  /\ UNCHANGED <<nameOrAddress, options, callNo, caller, wanted, name, data,
                 path, argOptions, result, ranFormatter, World>>

\* getDataForAddress from the answer of reverse to its return.
ReverseReturn ==
  /\ pc = "reversing"
  /\ Answer(data')
  /\ name' = TheName
  /\ result' = [result EXCEPT ![callNo] =
                  ReverseResult(TheName, data', calls, wanted, nameOrAddress)]
  /\ ranFormatter' = [ranFormatter EXCEPT
                        ![callNo] = ReverseFormats(data', calls, nameOrAddress)]
  /\ pc' = "idle"
  /\ UNCHANGED <<nameOrAddress, options, callNo, caller, wanted, calls, log,
                 path, argOptions, graphResp, nameResp>>

Next ==
  \/ GetProfile
  \/ GetName
  \/ GraphFetch
  \/ ResolveCall
  \/ ResolveReturn
  \/ ReverseCall
  \/ ReverseReturn

Spec == Init /\ [][Next]_vars

\* ===================================================== claims ========
\* The current call has returned or thrown; wanted, calls and data are the
\* ones of that call.
Finished == pc = "idle" /\ callNo >= 1
Returned == Finished /\ result[callNo].status = "ok"
Records == result[callNo].records

AllZero(bytes) == \A i \in 1..Len(bytes) : bytes[i] = 0
AllZeroHex(h) == \A i \in 1..Len(h) : h[i] = "0"
SameIgnoringCase(a, b) == ToLowerCase(a) = ToLowerCase(b)
Key60Slots == {i \in 1..Len(calls) : calls[i].key = "60"}
FirstKey60Slot == CHOOSE i \in Key60Slots : \A j \in Key60Slots : i <= j
Count(seq, x) == Cardinality({i \in 1..Len(seq) : seq[i] = x})
Requested60 ==
  IF wanted.coinTypes.tag = "list" THEN Count(wanted.coinTypes.v, "60") ELSE 0
Primary60 == {i \in 1..Len(calls) : calls[i] = Call("60", "addr")}

\* C1: every call list handed to resolve or reverse holds a coin-type-"60"
\* descriptor, and exactly one when "60" was requested at most once.
C1_PrimaryAddressInBatch ==
  pc \in {"resolving", "reversing"} =>
    /\ Primary60 # {}
    /\ Requested60 <= 1 => Cardinality(Primary60) = 1

C3_NoUnsetRecord ==
  (Returned /\ ~Records.isNull) =>
    /\ \A k \in 1..Len(Records.texts) :
         /\ Records.texts[k].value # <<>>
         /\ \E i \in 1..Len(data) :
              /\ calls[i] = Call(Records.texts[k].key, "text")
              /\ data[i] # <<>>
              /\ Records.texts[k].value = DecodeString(data[i])
    /\ \A k \in 1..Len(Records.coinTypes) :
         \E i \in 1..Len(data) :
           /\ calls[i] = Call(Records.coinTypes[k].key, "addr")
           /\ ~AllZero(data[i])
           /\ Records.coinTypes[k].value = FormatEncoder(DecodeBytes(data[i]))
    /\ Records.contentHash.tag = "str" => ~AllZeroHex(Records.contentHash.v)
C3_Witness ==
  /\ Returned /\ ~Records.isNull
  /\ Len(data) = Len(calls)
  /\ \E i \in 1..Len(data) : calls[i].type = "text" /\ data[i] = <<>>
  /\ \E i \in 1..Len(data) : calls[i].type = "addr" /\ data[i] = <<0>>
  /\ Records.hasTexts /\ Len(Records.coinTypes) > 0

\* C4: a decoded batch response whose length differs from the call list's
\* makes the forward resolution fail; it is never formatted into a result.
C4_CountMismatchFails ==
  (/\ Finished
   /\ \E i \in 1..Len(log[callNo]) : log[callNo][i] = "resolve"
   /\ Len(data) # Len(calls)) =>
    result[callNo].status = "error"

ChSlot == <<"contenthash", "contentHash">>
TextsFromChain ==
  \A k \in 1..Len(Records.texts) :
    LET r == Records.texts[k]
    IN  /\ chain[<<"text", r.key>>] # Unasked
        /\ r.value = DecodeString(chain[<<"text", r.key>>])
CoinsFromChain ==
  \A k \in 1..Len(Records.coinTypes) :
    LET r == Records.coinTypes[k]
    IN  /\ chain[<<"addr", r.key>>] # Unasked
        /\ r.value = FormatEncoder(DecodeBytes(chain[<<"addr", r.key>>]))
\* C5 as stated: on the index path every returned value, contentHash
\* included, comes from the on-chain response.
C5_AllValuesOnChain ==
  (Returned /\ path[callNo] = "index" /\ ~Records.isNull) =>
    /\ TextsFromChain
    /\ CoinsFromChain
    /\ Records.contentHash # Undef =>
         /\ chain[ChSlot] # Unasked
         /\ Records.contentHash =
              IF AllZero(chain[ChSlot]) THEN Null
              ELSE Str(DecodeBytes(chain[ChSlot]))
\* C5 amended: on the index path the texts and coinTypes values come from
\* the on-chain response; contentHash is never asked of the resolver there,
\* and the returned contentHash is the index's string (null when that is all
\* zero, absent when the index has none or contentHash was not requested).
C5_TextsCoinsOnChainHashFromIndex ==
  (Returned /\ path[callNo] = "index" /\ ~Records.isNull) =>
    /\ TextsFromChain
    /\ CoinsFromChain
    /\ \A i \in 1..Len(calls) : calls[i].type # "contenthash"
    /\ Records.contentHash =
         IF IsTrue(OrDefault(argOptions[callNo]).contentHash)
         THEN IF graphResp.contentHash.tag = "str"
              THEN IF AllZeroHex(graphResp.contentHash.v) THEN Null
                   ELSE graphResp.contentHash
              ELSE Undef
         ELSE Undef
C5_Witness ==
  /\ Returned /\ path[callNo] = "index" /\ ~Records.isNull
  /\ Records.contentHash.tag = "str"
  /\ Len(Records.coinTypes) > 0
  /\ Len(Records.texts) > 0

\* C6: a later call with the same input and the same options object takes
\* the path of the first call and issues the same external calls.
C6_CallsIndependent ==
  \A c \in 2..callNo :
    result[c].status # "none" => path[c] = path[1] /\ log[c] = log[1]

\* C7 as stated: the address a forward resolution returns equals the value
\* of the key-"60" record of the output coinTypes.
C7_AddressEqualsFormatted ==
  (Returned /\ result[callNo].hasAddress) =>
    \A k \in 1..Len(Records.coinTypes) :
      Records.coinTypes[k].key = "60" =>
        result[callNo].address = Records.coinTypes[k].value
\* C7 amended: the address is the raw decoded value (lower-case hex) of the
\* first key-"60" slot; when no text key is "60", a key-"60" record of the
\* output coinTypes holds the codec's formatting of that same value, equal
\* to the address up to letter case.
C7_AddressIsRawSlotValue ==
  (Returned /\ result[callNo].hasAddress) =>
    /\ Key60Slots # {}
    /\ result[callNo].address = DecodeBytes(data[FirstKey60Slot])
    /\ (\A i \in 1..Len(calls) : calls[i] # Call("60", "text")) =>
         \A k \in 1..Len(Records.coinTypes) :
           Records.coinTypes[k].key = "60" =>
             /\ Records.coinTypes[k].value =
                  FormatEncoder(result[callNo].address)
             /\ SameIgnoringCase(Records.coinTypes[k].value,
                                 result[callNo].address)
C7_Witness ==
  /\ Returned /\ result[callNo].hasAddress
  /\ \E k \in 1..Len(Records.coinTypes) :
       /\ Records.coinTypes[k].key = "60"
       /\ Records.coinTypes[k].value # result[callNo].address
  /\ FirstKey60Slot > 1

IndexRequested(o) == ~o.defined \/ IsTrue(o.texts) \/ IsTrue(o.coinTypes)
\* C8: a name lookup with no options, or with texts or coinTypes true,
\* issues one index query and then one resolve call, and hands the forward
\* resolver the options with every true field replaced by the index's value.
C8_IndexThenResolve ==
  (caller = "name" /\ callNo >= 1 /\ IndexRequested(argOptions[callNo])) =>
    LET asked == OrDefault(argOptions[callNo])
    IN  /\ log[callNo] \in {<<>>, <<"index">>, <<"index", "resolve">>}
        /\ pc \in {"graphFetch", "getDataForName", "resolving", "idle"}
        /\ Returned => log[callNo] = <<"index", "resolve">>
        /\ (pc \in {"getDataForName", "resolving"} \/ Returned) =>
             \A f \in {"contentHash", "texts", "coinTypes"} :
               /\ ~IsTrue(wanted[f])
               /\ wanted[f] = IF IsTrue(asked[f]) THEN graphResp[f]
                              ELSE asked[f]
C8_Witness ==
  /\ Returned /\ caller = "name"
  /\ IsTrue(argOptions[callNo].coinTypes)
  /\ argOptions[callNo].texts.tag = "list"
  /\ log[callNo] = <<"index", "resolve">>

\* C9: on the address path with the index branch, when the reverse name
\* lookup finds no name the call returns at once with records null and
\* match false, having issued nothing but that lookup.
C9_NoNameReturnsAtOnce ==
  (/\ caller = "address" /\ callNo >= 1 /\ path[callNo] = "index"
   /\ log[callNo] # <<>> /\ ~nameResp.match) =>
    /\ pc = "idle"
    /\ log[callNo] = <<"getName">>
    /\ result[callNo].status = "ok"
    /\ result[callNo].hasMatch /\ ~result[callNo].match
    /\ Records.isNull
C9_Witness ==
  /\ Finished /\ caller = "address" /\ path[callNo] = "index"
  /\ nameResp.asked /\ ~nameResp.match

KeysOf(recs) == [k \in 1..Len(recs) |-> recs[k].key]
TextSurvives(key) == chain[<<"text", key>>] # <<>>
CoinSurvives(key) == ~AllZero(chain[<<"addr", key>>]) /\ key \in {"60", "61"}
\* C10: for an aligned response the output has texts exactly when texts was
\* supplied, coinTypes exactly when coinTypes was supplied, contentHash
\* exactly when it was requested (true or a string); texts and coinTypes are
\* the surviving records of the request, in request order, a key requested
\* twice giving two records.
C10_BucketsFollowRequest ==
  (Returned /\ ~Records.isNull /\ Len(data) = Len(calls)) =>
    /\ Records.hasTexts <=> wanted.texts.tag = "list"
    /\ Records.hasCoinTypes <=> wanted.coinTypes.tag = "list"
    /\ Records.contentHash # Undef <=>
         (IsTrue(wanted.contentHash) \/ wanted.contentHash.tag = "str")
    /\ KeysOf(Records.texts) = SelectSeq(wanted.texts.v, TextSurvives)
    /\ KeysOf(Records.coinTypes) = SelectSeq(wanted.coinTypes.v, CoinSurvives)
C10_Witness ==
  /\ Returned /\ ~Records.isNull /\ Len(data) = Len(calls)
  /\ Len(Records.coinTypes) = 2
  /\ Records.coinTypes[1].key = Records.coinTypes[2].key
  /\ Records.hasTexts /\ Records.texts = <<>>
  /\ Records.contentHash = Undef

====
